---- MODULE Spec2Model ----
(***************************************************************************)
(* Model of the sdf "install" command (cmd/sdf/cmd_install.go): Execute's  *)
(* front end (validation, parsing, prune, group) and the concurrent        *)
(* install run (task queue, workers, wait goroutine, coordinator loop).    *)
(*                                                                         *)
(* Three specifications share the variables:                               *)
(*   ExecSpec  Execute from its entry up to the call of install, inputs    *)
(*             drawn from bounded sets of files and flags;                 *)
(*   Spec      one install run from the entry of install to its return,    *)
(*             the unit list being a result of group;                      *)
(*   OldSpec   the Execute of main.go's install command up to the call of  *)
(*             installSlices, with its shuffle-based prune.                *)
(* FairSpec is Spec with the fairness the Go scheduler gives goroutines.   *)
(***************************************************************************)
EXTENDS Integers, Sequences, FiniteSets, TLC

\* ------------------------------------------------------------------ bounds
MaxNames == 2
MaxFiles == 3
MaxUnits == 2
MaxWorkers == 2

\* Slice names (strings in the source) are numbered 1..MaxNames.
Names == 1..MaxNames

\* ------------------------------------------------------------- pure helpers
Range(s) == {s[i] : i \in DOMAIN s}

SeqsUpTo(S, n) == UNION {[1..k -> S] : k \in 0..n}

\* Go's builtin min, used for the number of workers.
min(a, b) == IF a <= b THEN a ELSE b

\* A slice record as the parser returns it: a name and its essentials.  A slice
\* never lists itself (the acyclic dependency policy prune relies on).
SliceRecords == {r \in [name : Names, essential : SUBSET Names] : r.name \notin r.essential}

\* A slice definition file: whether its path has the release prefix, and what
\* chisel.ParseSlices returns for it: an error (ok false) or a list of slice
\* records.  A file holds at most one slice here; lists of files give the lists
\* of slices.
FileSet ==
    {[inRelease |-> FALSE, ok |-> TRUE, parse |-> <<>>],
     [inRelease |-> TRUE, ok |-> FALSE, parse |-> <<>>]}
    \cup {[inRelease |-> TRUE, ok |-> TRUE, parse |-> p] : p \in SeqsUpTo(SliceRecords, 1)}

\* slices = append(slices, s...) over the files: the concatenation of the parse
\* results.
RECURSIVE ParseAll(_)
ParseAll(files) ==
    IF files = <<>> THEN <<>>
    ELSE ParseAll(SubSeq(files, 1, Len(files) - 1)) \o files[Len(files)].parse

\* The *chisel.Slice pointers of the concatenated list: a record with the same
\* name parsed twice is two pointers, told apart by id (its position).
Pointers(recs) ==
    [i \in DOMAIN recs |-> [id |-> i, name |-> recs[i].name, essential |-> recs[i].essential]]

\* ------------------------------------------------------------------- group
NamesOf(slices) == [i \in DOMAIN slices |-> slices[i].name]

\* combine branch: names collects every name, and grouped gets that one group
\* appended, whatever its length.
groupCombine(slices) == <<NamesOf(slices)>>

\* else branch: one group per slice.
groupSplit(slices) == [i \in DOMAIN slices |-> <<slices[i].name>>]

groupSwapped(slices, combine) ==
    IF combine THEN groupSplit(slices) ELSE groupCombine(slices)

group(slices, combine) ==
    IF combine THEN groupCombine(slices) ELSE groupSplit(slices)

\* ------------------------------------------------------------------- prune
\* First loop: pending[s.Name] = s; a later record of the same name overwrites
\* the earlier one.
RECURSIVE pendingInsert(_, _)
pendingInsert(slices, n) ==
    IF n = 0 THEN <<>>
    ELSE LET m == pendingInsert(slices, n - 1)
             s == slices[n]
         IN [k \in (DOMAIN m) \cup {s.name} |-> IF k = s.name THEN s ELSE m[k]]

\* Second loop: delete(pending, e) for every essential e of every slice.
deleteKeys(m, slices, n) ==
    {k \in DOMAIN m : \E i \in 1..n : k \in slices[i].essential}

pendingDelete(m, slices) ==
    LET gone == deleteKeys(m, slices, Len(slices))
    IN [k \in (DOMAIN m) \ gone |-> m[k]]

\* The map after both loops.
pendingOf(slices) == pendingDelete(pendingInsert(slices, Len(slices)), slices)

\* Third loop: todo collects the map's values; Go's map iteration order is
\* unspecified, so every order of the values is a possible result.
prune(slices) ==
    LET vals == {pendingOf(slices)[k] : k \in DOMAIN pendingOf(slices)}
    IN {q \in [1..Cardinality(vals) -> vals] : Range(q) = vals}

\* --------------------------------------------------------------- variables
VARIABLES
    args,       \* len(args): extra command-line arguments handed to Execute
    Workers,    \* c.Workers
    Continue,   \* c.Continue
    Combine,    \* c.Combine
    Prune,      \* c.Prune
    Files,      \* c.Args.Files
    parsed,     \* calls of chisel.ParseSlices made so far
    slices,     \* Execute's local slices ([]*chisel.Slice)
    units,      \* the groups handed to install (its parameter slices)
    epc,        \* where Execute is
    ret,        \* what Execute returned ("none" while it runs)
    ipc,        \* where install (the coordinator) is
    started,    \* workers started so far by install's loop
    wg,         \* the sync.WaitGroup counter
    tasks,      \* the tasks channel's buffer (closed after filling)
    errs,       \* the errs channel's buffer
    cancelled,  \* ctx is done
    waiter,     \* the goroutine of wg.Wait(); done <- true
    wpc,        \* where each worker goroutine is
    cur,        \* the task a worker holds (0: none)
    werr,       \* the error a worker is about to send ("": none)
    claimed,    \* per unit: times it was received from tasks
    claimedAt,  \* per unit: what the run looked like when it was received from
                \* tasks: "clear", "failed" (an error had been sent on errs) or
                \* "cancelled" (ctx was done); "queued" before
    invoked,    \* per unit: chisel subprocesses started for it
    result,     \* per unit: how do ended for it ("none" before)
    logged,     \* per unit: the log lines printed for it
    dirs        \* the temporary directories that exist (named by their unit)

execVars == <<args, Workers, Continue, Combine, Prune, Files, parsed, slices, units, epc, ret>>
runVars == <<ipc, started, wg, tasks, errs, cancelled, waiter, wpc, cur, werr,
             claimed, claimedAt, invoked, result, logged, dirs>>
vars == <<execVars, runVars>>

WorkerIds == 1..MaxWorkers
U == Len(units)
UnitIds == 1..U

\* The run state before install is entered: no channel, no goroutine.
NoRun ==
    /\ ipc = "idle"
    /\ started = 0
    /\ wg = 0
    /\ tasks = <<>>
    /\ errs = <<>>
    /\ cancelled = FALSE
    /\ waiter = "none"
    /\ wpc = [w \in WorkerIds |-> "none"]
    /\ cur = [w \in WorkerIds |-> 0]
    /\ werr = [w \in WorkerIds |-> ""]
    /\ claimed = <<>>
    /\ claimedAt = <<>>
    /\ invoked = <<>>
    /\ result = <<>>
    /\ logged = <<>>
    /\ dirs = {}

\* ----------------------------------------------------------------- Execute
InitExec ==
    /\ args \in {0, 1}
    /\ Workers \in -1..1
    /\ Continue = FALSE
    /\ Combine \in BOOLEAN
    /\ Prune \in BOOLEAN
    /\ Files \in SeqsUpTo(FileSet, MaxFiles)
    /\ parsed = 0
    /\ slices = <<>>
    /\ units = <<>>
    /\ epc = "validate"
    /\ ret = "none"
    /\ NoRun

InvalidWorkersNegative(w) == w < 0

\* if c.Workers <= 0: the worker count Execute rejects.
InvalidWorkers(w) == w <= 0

\* The checks at the head of Execute.
ExecValidate ==
    /\ epc = "validate"
    /\ IF args > 0 THEN epc' = "returned" /\ ret' = "ErrExtraArgs"
       ELSE IF InvalidWorkers(Workers) THEN epc' = "returned" /\ ret' = "invalid workers"
       ELSE IF \E i \in DOMAIN Files : ~Files[i].inRelease
            THEN epc' = "returned" /\ ret' = "not inside release"
       ELSE IF Len(Files) = 0 THEN epc' = "returned" /\ ret' = "nil"
       ELSE epc' = "parse" /\ ret' = ret
    /\ UNCHANGED <<args, Workers, Continue, Combine, Prune, Files, parsed, slices, units, runVars>>

\* The parse loop: the first file that fails to parse ends Execute.
ExecParse ==
    /\ epc = "parse"
    /\ IF \E i \in DOMAIN Files : ~Files[i].ok
       THEN /\ epc' = "returned" /\ ret' = "cannot parse" /\ slices' = slices
            /\ parsed' = CHOOSE i \in DOMAIN Files :
                            ~Files[i].ok /\ \A j \in 1..(i - 1) : Files[j].ok
       ELSE /\ epc' = "prune" /\ ret' = ret /\ slices' = Pointers(ParseAll(Files))
            /\ parsed' = Len(Files)
    /\ UNCHANGED <<args, Workers, Continue, Combine, Prune, Files, units, runVars>>

\* if c.Prune { slices = prune(slices) }
ExecPrune ==
    /\ epc = "prune"
    /\ IF Prune THEN slices' \in prune(slices) ELSE slices' = slices
    /\ epc' = "group"
    /\ UNCHANGED <<args, Workers, Continue, Combine, Prune, Files, parsed, units, ret, runVars>>

\* g := group(slices, c.Combine); install is called with g.
ExecGroup ==
    /\ epc = "group"
    /\ units' = group(slices, Combine)
    /\ epc' = "install"
    /\ UNCHANGED <<args, Workers, Continue, Combine, Prune, Files, parsed, slices, ret, runVars>>

NextExec == ExecValidate \/ ExecParse \/ ExecPrune \/ ExecGroup

ExecSpec == InitExec /\ [][NextExec]_vars

\* ----------------------------------------------------------------- install
NumWorkersAll(w, u) == w

NumWorkersPerUnit(w, u) == u

\* for range min(c.Workers, len(slices)): the number of workers started.
NumWorkers(w, u) == min(w, u)

ErrsCapZero(groups) == 0

ErrsCapOneLess(groups) == Len(groups) - 1

\* errs := make(chan error, len(slices)): the capacity of the errs channel.
ErrsCap(groups) == Len(groups)

CancelOnErrorAlways(continue) == TRUE

\* if !c.Continue { cancel() }: whether a received error cancels the context.
CancelOnError(continue) == ~continue

StartRefusedNever(ctxDone) == FALSE

\* exec.CommandContext(ctx, ...): Start does not launch the process when ctx is
\* already done and returns ctx.Err() instead.  Start is taken at this check: a
\* Start that passed it is an invocation in flight.
StartRefused(ctxDone) == ctxDone

WaitOutcomesAny(ctxDone) == {"ok", "rejected", "killed"}

\* How a started chisel process can end for CombinedOutput: by itself (exit
\* status zero, or non-zero), or, once ctx is done, ended by the context (an exit
\* error whose exit code is -1, or ctx.Err()).
WaitOutcomes(ctxDone) ==
    IF ctxDone THEN {"ok", "rejected", "killed"} ELSE {"ok", "rejected"}

\* The files of a run that reaches install with n slices named 1..n, none with
\* essentials (a file without slices when n = 0).
InstallFiles(n) ==
    IF n = 0 THEN <<[inRelease |-> TRUE, ok |-> TRUE, parse |-> <<>>]>>
    ELSE [i \in 1..n |-> [inRelease |-> TRUE, ok |-> TRUE,
                          parse |-> <<[name |-> i, essential |-> {}]>>]]

\* install after ctx, the two channels and the closed, filled task queue exist:
\* reached through Execute with valid input.
Init ==
    /\ args = 0
    /\ Workers \in 1..MaxWorkers
    /\ Continue \in BOOLEAN
    /\ Combine \in BOOLEAN
    /\ Prune = FALSE
    /\ \E n \in 0..MaxUnits : Files = InstallFiles(n)
    /\ parsed = Len(Files)
    /\ slices = Pointers(ParseAll(Files))
    /\ units = group(slices, Combine)
    /\ epc = "install"
    /\ ret = "none"
    /\ ipc = "spawn"
    /\ started = 0
    /\ wg = 0
    /\ tasks = [i \in 1..Len(units) |-> i]
    /\ errs = <<>>
    /\ cancelled = FALSE
    /\ waiter = "none"
    /\ wpc = [w \in WorkerIds |-> "none"]
    /\ cur = [w \in WorkerIds |-> 0]
    /\ werr = [w \in WorkerIds |-> ""]
    /\ claimed = [t \in 1..Len(units) |-> 0]
    /\ claimedAt = [t \in 1..Len(units) |-> "queued"]
    /\ invoked = [t \in 1..Len(units) |-> 0]
    /\ result = [t \in 1..Len(units) |-> "none"]
    /\ logged = [t \in 1..Len(units) |-> {}]
    /\ dirs = {}

\* The error of unit t has been sent on errs.
Reported(t) ==
    /\ result[t] \notin {"none", "ok"}
    /\ ~\E w \in WorkerIds : cur[w] = t /\ wpc[w] = "send"

AnyReported == \E t \in UnitIds : Reported(t)

\* One iteration of the loop that starts the workers: wg.Add(1); go worker.
Spawn ==
    /\ ipc = "spawn"
    /\ started < NumWorkers(Workers, U)
    /\ started' = started + 1
    /\ wg' = wg + 1
    /\ wpc' = [wpc EXCEPT ![started + 1] = "select"]
    /\ UNCHANGED <<execVars, ipc, tasks, errs, cancelled, waiter, cur, werr,
                   claimed, claimedAt, invoked, result, logged, dirs>>

\* The loop is over: go func() { wg.Wait(); done <- true }(), then the
\* coordinator enters its select loop.
SpawnWaiter ==
    /\ ipc = "spawn"
    /\ started >= NumWorkers(Workers, U)
    /\ waiter' = "wait"
    /\ ipc' = "loop"
    /\ UNCHANGED <<execVars, started, wg, tasks, errs, cancelled, wpc, cur, werr,
                   claimed, claimedAt, invoked, result, logged, dirs>>

\* wg.Wait() returns once the counter is zero.
WaiterWait ==
    /\ waiter = "wait"
    /\ wg = 0
    /\ waiter' = "send"
    /\ UNCHANGED <<execVars, ipc, started, wg, tasks, errs, cancelled, wpc, cur, werr,
                   claimed, claimedAt, invoked, result, logged, dirs>>

\* case <-done: break loop.  done is unbuffered: the waiter's send and this
\* receive are one step.
CoordRecvDone ==
    /\ ipc = "loop"
    /\ waiter = "send"
    /\ waiter' = "exited"
    /\ ipc' = "break"
    /\ UNCHANGED <<execVars, started, wg, tasks, errs, cancelled, wpc, cur, werr,
                   claimed, claimedAt, invoked, result, logged, dirs>>

\* case <-errs: if !c.Continue { cancel() }.
CoordRecvErr ==
    /\ ipc = "loop"
    /\ errs # <<>>
    /\ errs' = Tail(errs)
    /\ cancelled' = (cancelled \/ CancelOnError(Continue))
    /\ UNCHANGED <<execVars, ipc, started, wg, tasks, waiter, wpc, cur, werr,
                   claimed, claimedAt, invoked, result, logged, dirs>>

installReturnFailures(failed) == IF failed > 0 THEN "units failed" ELSE "nil"

\* return nil: install's result, whatever number of units failed.
installReturn(failed) == "nil"

\* return nil, with the deferred cancel(); Execute returns install's result.
CoordReturn ==
    /\ ipc = "break"
    /\ cancelled' = TRUE
    /\ ipc' = "returned"
    /\ ret' = installReturn(Cardinality({t \in UnitIds : result[t] \notin {"none", "ok"}}))
    /\ epc' = "returned"
    /\ UNCHANGED <<args, Workers, Continue, Combine, Prune, Files, parsed, slices, units,
                   started, wg, tasks, errs, waiter, wpc, cur, werr,
                   claimed, claimedAt, invoked, result, logged, dirs>>

Coordinator == Spawn \/ SpawnWaiter \/ CoordRecvDone \/ CoordRecvErr \/ CoordReturn

\* ------------------------------------------------------------------ worker
\* select, case <-ctx.Done(): break loop; the goroutine ends with wg.Done().
WorkerCtxDone(w) ==
    /\ wpc[w] = "select"
    /\ cancelled
    /\ wpc' = [wpc EXCEPT ![w] = "exited"]
    /\ wg' = wg - 1
    /\ UNCHANGED <<execVars, ipc, started, tasks, errs, cancelled, waiter, cur, werr,
                   claimed, claimedAt, invoked, result, logged, dirs>>

DequeueKept(queue) == queue

\* task, ok := <-tasks: the channel's buffer after the receive.
Dequeue(queue) == Tail(queue)

\* select, case task, ok := <-tasks with ok: do(task).  select chooses among
\* its ready cases at random, so this case can be taken while ctx is done.
WorkerRecvTask(w) ==
    /\ wpc[w] = "select"
    /\ tasks # <<>>
    /\ LET t == Head(tasks) IN
        /\ cur' = [cur EXCEPT ![w] = t]
        /\ claimed' = [claimed EXCEPT ![t] = @ + 1]
        /\ claimedAt' = [claimedAt EXCEPT ![t] =
                            IF cancelled THEN "cancelled"
                            ELSE IF AnyReported THEN "failed" ELSE "clear"]
    /\ tasks' = Dequeue(tasks)
    /\ wpc' = [wpc EXCEPT ![w] = "do"]
    /\ UNCHANGED <<execVars, ipc, started, wg, errs, cancelled, waiter, werr,
                   invoked, result, logged, dirs>>

\* select, case task, ok := <-tasks with !ok (closed and empty): break loop.
WorkerTasksClosed(w) ==
    /\ wpc[w] = "select"
    /\ tasks = <<>>
    /\ wpc' = [wpc EXCEPT ![w] = "exited"]
    /\ wg' = wg - 1
    /\ UNCHANGED <<execVars, ipc, started, tasks, errs, cancelled, waiter, cur, werr,
                   claimed, claimedAt, invoked, result, logged, dirs>>

\* do: log "Installing", then os.MkdirTemp, which succeeds or fails.
DoMkdir(w) ==
    /\ wpc[w] = "do"
    /\ LET t == cur[w] IN
        \/ /\ dirs' = dirs \cup {t}
           /\ logged' = [logged EXCEPT ![t] = @ \cup {"Installing"}]
           /\ wpc' = [wpc EXCEPT ![w] = "exec"]
           /\ UNCHANGED <<result, werr>>
        \/ /\ logged' = [logged EXCEPT ![t] = @ \cup {"Installing", "NO"}]
           /\ result' = [result EXCEPT ![t] = "nodir"]
           /\ werr' = [werr EXCEPT ![w] = "nodir"]
           /\ wpc' = [wpc EXCEPT ![w] = "send"]
           /\ UNCHANGED dirs
    /\ UNCHANGED <<execVars, ipc, started, wg, tasks, errs, cancelled, waiter, cur,
                   claimed, claimedAt, invoked>>

\* do: exec.CommandContext and the start of CombinedOutput: refused when ctx is
\* done, else the process fails to launch or is started.
DoStart(w) ==
    /\ wpc[w] = "exec"
    /\ LET t == cur[w] IN
        IF StartRefused(cancelled)
        THEN /\ result' = [result EXCEPT ![t] = "ctxerr"]
             /\ werr' = [werr EXCEPT ![w] = "ctxerr"]
             /\ wpc' = [wpc EXCEPT ![w] = "send"]
             /\ UNCHANGED invoked
        ELSE \/ /\ result' = [result EXCEPT ![t] = "noexec"]
                /\ werr' = [werr EXCEPT ![w] = "noexec"]
                /\ wpc' = [wpc EXCEPT ![w] = "send"]
                /\ UNCHANGED invoked
             \/ /\ invoked' = [invoked EXCEPT ![t] = @ + 1]
                /\ wpc' = [wpc EXCEPT ![w] = "wait"]
                /\ UNCHANGED <<result, werr>>
    /\ UNCHANGED <<execVars, ipc, started, wg, tasks, errs, cancelled, waiter, cur,
                   claimed, claimedAt, logged, dirs>>

\* do: CombinedOutput returns when the process has ended.  Success logs "OK";
\* an exit error with an exit code other than -1 logs "NO"; any error is to be
\* sent on errs.
DoWait(w) ==
    /\ wpc[w] = "wait"
    /\ LET t == cur[w] IN
        \E o \in WaitOutcomes(cancelled) :
            /\ result' = [result EXCEPT ![t] = o]
            /\ logged' = [logged EXCEPT ![t] =
                            IF o = "ok" THEN @ \cup {"OK"}
                            ELSE IF o = "rejected" THEN @ \cup {"NO"} ELSE @]
            /\ werr' = [werr EXCEPT ![w] = IF o = "ok" THEN "" ELSE o]
            /\ wpc' = [wpc EXCEPT ![w] = IF o = "ok" THEN "cleanup" ELSE "send"]
    /\ UNCHANGED <<execVars, ipc, started, wg, tasks, errs, cancelled, waiter, cur,
                   claimed, claimedAt, invoked, dirs>>

\* do: errs <- err, which blocks while the buffer is full.
DoSend(w) ==
    /\ wpc[w] = "send"
    /\ Len(errs) < ErrsCap(units)
    /\ errs' = Append(errs, werr[w])
    /\ werr' = [werr EXCEPT ![w] = ""]
    /\ wpc' = [wpc EXCEPT ![w] = "cleanup"]
    /\ UNCHANGED <<execVars, ipc, started, wg, tasks, cancelled, waiter, cur,
                   claimed, claimedAt, invoked, result, logged, dirs>>

RemoveAllSkipped(existing, dir) == existing

\* defer os.RemoveAll(dir): the directories left once dir is removed.
RemoveAll(existing, dir) == existing \ {dir}

\* do returns: the deferred os.RemoveAll(dir) (nothing when MkdirTemp failed),
\* and the worker is back at its select.
DoReturn(w) ==
    /\ wpc[w] = "cleanup"
    /\ dirs' = RemoveAll(dirs, cur[w])
    /\ cur' = [cur EXCEPT ![w] = 0]
    /\ wpc' = [wpc EXCEPT ![w] = "select"]
    /\ UNCHANGED <<execVars, ipc, started, wg, tasks, errs, cancelled, waiter, werr,
                   claimed, claimedAt, invoked, result, logged>>

worker(w) ==
    \/ WorkerCtxDone(w) \/ WorkerRecvTask(w) \/ WorkerTasksClosed(w)
    \/ DoMkdir(w) \/ DoStart(w) \/ DoWait(w) \/ DoSend(w) \/ DoReturn(w)

Next == Coordinator \/ WaiterWait \/ (\E w \in WorkerIds : worker(w))

Spec == Init /\ [][Next]_vars

\* The Go scheduler runs every runnable goroutine, and every chisel process is
\* assumed to end.
FairSpec ==
    /\ Spec
    /\ WF_vars(Coordinator)
    /\ WF_vars(WaiterWait)
    /\ \A w \in WorkerIds : WF_vars(worker(w))

\* ------------------------------------------- the install command of main.go
\* rand.Perm(n): a permutation of the n positions.
Perms(n) == {p \in [1..n -> 1..n] : \A i, j \in 1..n : i # j => p[i] # p[j]}

\* for i, v := range perm { defs[v] = sliceDefs[i] }
shuffle(sliceDefs, perm) ==
    [v \in DOMAIN sliceDefs |-> sliceDefs[CHOOSE i \in DOMAIN sliceDefs : perm[i] = v]]

\* The second loop of main.go's prune from position i on: a slice whose name is
\* still pending goes to todo and has its essentials deleted from pending; a
\* slice whose name was deleted is skipped.
RECURSIVE pruneLoop(_, _, _, _)
pruneLoop(defs, i, pending, todo) ==
    IF i > Len(defs) THEN todo
    ELSE IF defs[i].name \notin pending THEN pruneLoop(defs, i + 1, pending, todo)
    ELSE pruneLoop(defs, i + 1, pending \ defs[i].essential, Append(todo, defs[i]))

\* main.go's prune: every result its shuffle can lead to.  pending starts as
\* the names of all slices.
pruneShuffled(sliceDefs) ==
    {pruneLoop(shuffle(sliceDefs, p), 1, Range(NamesOf(sliceDefs)), <<>>) :
        p \in Perms(Len(sliceDefs))}

\* main.go's Execute at its entry.
InitOld ==
    /\ args \in {0, 1}
    /\ Workers = 1
    /\ Continue = FALSE
    /\ Combine = FALSE
    /\ Prune \in BOOLEAN
    /\ Files \in SeqsUpTo(FileSet, MaxFiles)
    /\ parsed = 0
    /\ slices = <<>>
    /\ units = <<>>
    /\ epc = "validate"
    /\ ret = "none"
    /\ NoRun

\* main.go's Execute: extra arguments are an error, no file is success.
OldValidate ==
    /\ epc = "validate"
    /\ IF args > 0 THEN epc' = "returned" /\ ret' = "ErrExtraArgs"
       ELSE IF Len(Files) = 0 THEN epc' = "returned" /\ ret' = "nil"
       ELSE epc' = "parse" /\ ret' = ret
    /\ UNCHANGED <<args, Workers, Continue, Combine, Prune, Files, parsed, slices, units, runVars>>

\* main.go's Execute: the parse loop.
OldParse ==
    /\ epc = "parse"
    /\ IF \E i \in DOMAIN Files : ~Files[i].ok
       THEN /\ epc' = "returned" /\ ret' = "cannot parse" /\ slices' = slices
            /\ parsed' = CHOOSE i \in DOMAIN Files :
                            ~Files[i].ok /\ \A j \in 1..(i - 1) : Files[j].ok
       ELSE /\ epc' = "prune" /\ ret' = ret /\ slices' = Pointers(ParseAll(Files))
            /\ parsed' = Len(Files)
    /\ UNCHANGED <<args, Workers, Continue, Combine, Prune, Files, units, runVars>>

\* main.go's Execute: if c.Prune { sliceDefs = prune(sliceDefs) }, then
\* installSlices is called.
OldPrune ==
    /\ epc = "prune"
    /\ IF Prune THEN slices' \in pruneShuffled(slices) ELSE slices' = slices
    /\ epc' = "installSlices"
    /\ UNCHANGED <<args, Workers, Continue, Combine, Prune, Files, parsed, units, ret, runVars>>

NextOld == OldValidate \/ OldParse \/ OldPrune

OldSpec == InitOld /\ [][NextOld]_vars

\* ------------------------------------------------------------------ claims
AllWorkersExited == \A w \in 1..started : wpc[w] = "exited"

\* The tool was invoked for unit t: a process was started, or its launch failed.
Attempted(t) == invoked[t] = 1 \/ result[t] = "noexec"

\* C1: install starts exactly min(W, U) workers (never more, and all of them
\* once its spawn loop is over); no unit is ever claimed twice, and when the
\* coordinator leaves its loop without cancellation having been signalled every
\* unit has been claimed exactly once.
C1_WorkersAndClaims ==
    /\ started <= min(Workers, U)
    /\ ipc # "spawn" => started = min(Workers, U)
    /\ \A t \in UnitIds : claimed[t] <= 1
    /\ (ipc = "break" /\ ~cancelled) => \A t \in UnitIds : claimed[t] = 1

C1_Witness ==
    /\ ipc = "break" /\ ~cancelled
    /\ U = 2 /\ Workers = 2 /\ started = 2
    /\ \A t \in UnitIds : claimed[t] = 1 /\ result[t] # "none"

\* C2 as stated: in fail-fast mode, a unit received from the queue after some
\* unit's error was sent on errs never has the tool started for it.
C2_Original ==
    ~Continue => \A t \in UnitIds : claimedAt[t] \in {"failed", "cancelled"} => invoked[t] = 0

\* C2 amended: in fail-fast mode, a unit that was still in the queue when the
\* coordinator signalled cancellation never has the tool started for it, also
\* when a worker still receives it from the queue afterwards.
C2_NoToolAfterCancel ==
    ~Continue => \A t \in UnitIds : claimedAt[t] = "cancelled" => invoked[t] = 0

C2_Witness ==
    /\ ~Continue
    /\ \E t \in UnitIds : claimedAt[t] = "cancelled" /\ result[t] = "ctxerr" /\ Reported(t)

\* C3 as stated: in continue-on-error mode the tool invocation of every unit
\* has been started when install leaves its loop.
C3_Original ==
    (Continue /\ ipc \in {"break", "returned"}) => \A t \in UnitIds : Attempted(t)

\* C3 amended: in continue-on-error mode cancellation is not signalled before
\* install returns, and when install leaves its loop every unit has been
\* claimed and run by a worker, the tool having been invoked for it unless its
\* working directory could not be created.
C3_DrainsQueue ==
    Continue =>
        /\ ipc # "returned" => ~cancelled
        /\ ipc \in {"break", "returned"} =>
              \A t \in UnitIds :
                  /\ claimed[t] = 1
                  /\ result[t] # "none"
                  /\ result[t] # "nodir" => Attempted(t)

C3_Witness ==
    /\ Continue /\ ipc = "returned" /\ U = 2
    /\ result[1] = "rejected" /\ result[2] = "ok" /\ invoked[2] = 1

\* C4: no step taken while the cancellation signal is set starts a subprocess.
C4_NoStartOnceCancelled == [][cancelled => invoked' = invoked]_vars

C4_Witness ==
    /\ cancelled /\ ipc = "loop"
    /\ \E w \in WorkerIds : wpc[w] = "send" /\ werr[w] = "ctxerr"
                            /\ claimedAt[cur[w]] = "cancelled" /\ invoked[cur[w]] = 0

C6_Terminates ==
    /\ <>(ipc = "returned")
    /\ [](ipc \in {"break", "returned"} =>
            /\ started = min(Workers, U)
            /\ AllWorkersExited
            /\ waiter = "exited")

C6_Witness ==
    /\ ipc = "returned" /\ started = 2 /\ AllWorkersExited /\ waiter = "exited"
    /\ errs # <<>>

\* The slices Execute parsed, before pruning.
Parsed == Pointers(ParseAll(Files))

\* The records of input P whose name is in no other record's essentials.
TopLevel(P) ==
    {P[i] : i \in {i \in DOMAIN P : \A j \in DOMAIN P : j # i => P[i].name \notin P[j].essential}}

\* C7: prune returns exactly the records whose name is in the essential set
\* of no other record of the input.
C7_Claim ==
    (Prune /\ epc \in {"group", "install"}) =>
        /\ Range(slices) = TopLevel(Parsed)
        /\ Len(slices) = Cardinality(TopLevel(Parsed))

\* C8: when no record has essentials prune returns the full input, records of
\* the same name included.
C8_Claim ==
    (Prune /\ epc \in {"group", "install"} /\ \A i \in DOMAIN Parsed : Parsed[i].essential = {}) =>
        /\ Range(slices) = Range(Parsed)
        /\ Len(slices) = Len(Parsed)

\* C9: group with combine returns one unit holding all N names, in order;
\* without combine it returns N units, the i-th holding the i-th name alone.
C9_Group ==
    epc = "install" =>
        IF Combine
        THEN /\ Len(units) = 1
             /\ Len(units[1]) = Len(slices)
             /\ \A i \in DOMAIN slices : units[1][i] = slices[i].name
        ELSE /\ Len(units) = Len(slices)
             /\ \A i \in DOMAIN slices : units[i] = <<slices[i].name>>

C9_Witness ==
    /\ epc = "install" /\ ~Combine /\ Len(slices) = 3 /\ Len(units) = 3
    /\ slices[1].name = slices[3].name

\* C10: group of an empty slice list is the empty unit list, and every unit
\* handed to install holds at least one name.
C10_Claim ==
    epc = "install" =>
        /\ slices = <<>> => units = <<>>
        /\ \A i \in DOMAIN units : Len(units[i]) >= 1

\* C11: with a worker count of zero or less Execute returns a validation error
\* (the worker count's own error when there are no extra arguments) and has
\* parsed no file, built no unit, queued no task, started no worker and no
\* subprocess.
C11_RejectsBadWorkers ==
    Workers <= 0 =>
        /\ epc \in {"validate", "returned"}
        /\ epc = "returned" => ret \in {"ErrExtraArgs", "invalid workers"}
        /\ (epc = "returned" /\ args = 0) => ret = "invalid workers"
        /\ parsed = 0 /\ slices = <<>> /\ units = <<>>
        /\ ipc = "idle" /\ tasks = <<>> /\ started = 0 /\ invoked = <<>>

C11_Witness ==
    /\ Workers = 0 /\ args = 0
    /\ epc = "returned" /\ ret = "invalid workers"
    /\ Len(Files) = 2
    /\ \A i \in DOMAIN Files : Files[i].inRelease /\ Files[i].ok /\ Files[i].parse # <<>>

\* C12: a unit whose tool could not be launched has a failure report printed
\* for it.
C12_Claim ==
    \A t \in UnitIds : result[t] = "noexec" => "NO" \in logged[t]

\* C13: install, and with it Execute, returns nil whenever it returns, whatever
\* units failed and in either mode; it has no result before.
C13_ReturnsNil ==
    /\ ipc = "returned" => (ret = "nil" /\ epc = "returned")
    /\ ipc # "returned" => ret = "none"

C13_Witness ==
    /\ ipc = "returned" /\ ret = "nil" /\ ~Continue
    /\ \E t \in UnitIds : result[t] = "rejected"
    /\ \E t \in UnitIds : result[t] = "ctxerr"

\* C14: a unit that was still in the queue when the context was cancelled is
\* never logged as being installed, gets no working directory and has no error
\* sent for it.
C14_Claim ==
    \A t \in UnitIds :
        claimedAt[t] = "cancelled" =>
            /\ logged[t] = {}
            /\ t \notin dirs
            /\ result[t] = "none"

\* The workers that are inside do.
InDo == {w \in WorkerIds : wpc[w] \in {"do", "exec", "wait", "send", "cleanup"}}

\* C15: a working directory exists only while the do of its own unit runs, and
\* no two workers inside do hold the same unit or directory; a unit whose
\* directory could not be created has no tool invocation and a failure logged
\* and sent (or about to be sent); when install is past its loop no directory
\* is left.
C15_DirsScoped ==
    /\ \A t \in dirs : \E w \in InDo : cur[w] = t /\ wpc[w] # "do"
    /\ \A w1, w2 \in InDo : w1 # w2 => cur[w1] # cur[w2]
    /\ \A t \in UnitIds :
          result[t] = "nodir" =>
              /\ invoked[t] = 0
              /\ t \notin dirs
              /\ "NO" \in logged[t]
              /\ Reported(t) \/ \E w \in InDo : cur[w] = t /\ wpc[w] = "send" /\ werr[w] = "nodir"
    /\ ipc \in {"break", "returned"} => dirs = {}

C15_Witness ==
    /\ ipc = "returned" /\ dirs = {}
    /\ \E t \in UnitIds : result[t] = "nodir"
    /\ \E t \in UnitIds : result[t] = "killed"

\* C16: every unit is received from the queue at most once, by at most one
\* worker, and has the tool started at most once and only after being
\* received; a unit is in the queue exactly as long as it was never received,
\* so no unit, failed or not, goes back into it.
C16_AtMostOnce ==
    \A t \in UnitIds :
        /\ claimed[t] <= 1
        /\ invoked[t] <= claimed[t]
        /\ Cardinality({w \in WorkerIds : cur[w] = t}) <= claimed[t]
        /\ (t \in Range(tasks)) <=> (claimed[t] = 0)

C16_Witness ==
    /\ ~Continue /\ ipc = "loop" /\ cancelled
    /\ \E t \in UnitIds : result[t] = "rejected" /\ Reported(t) /\ claimed[t] = 1 /\ invoked[t] = 1
    /\ \E w \in WorkerIds : wpc[w] = "select"
    /\ tasks # <<>>

\* C17: at every moment the workers inside do, the subprocesses in flight and
\* the working directories in existence each number at most min(W, U).
C17_BoundedConcurrency ==
    /\ Cardinality(InDo) <= min(Workers, U)
    /\ Cardinality({w \in WorkerIds : wpc[w] = "wait"}) <= min(Workers, U)
    /\ Cardinality(dirs) <= min(Workers, U)

C17_Witness ==
    /\ Workers = 2 /\ U = 2
    /\ \A w \in {1, 2} : wpc[w] = "wait"
    /\ Cardinality(dirs) = 2

\* The errors the coordinator has received from errs: those sent and no
\* longer in the buffer.
Received == Cardinality({t \in UnitIds : Reported(t)}) - Len(errs)

\* C18: the cancellation signal is never reset once set, and while install has
\* not returned or a worker has not exited it is set only in fail-fast mode
\* and only after the coordinator received an error.
C18_CancelOneWay ==
    /\ [][cancelled => cancelled']_vars
    /\ []((cancelled /\ (ipc # "returned" \/ ~AllWorkersExited)) =>
             (~Continue /\ Received >= 1))

C18_Witness ==
    /\ cancelled /\ ~Continue /\ ipc = "loop" /\ Received = 1
    /\ \E w \in WorkerIds : wpc[w] = "wait"

\* C19: a worker about to send on errs always finds room in the buffer; the
\* errors in the buffer and about to be sent never outnumber the claimed
\* units that ended otherwise than by success, and so never the units.
C19_SendNeverBlocks ==
    LET sending == {w \in WorkerIds : wpc[w] = "send"}
        failed == {t \in UnitIds : claimed[t] = 1 /\ result[t] \notin {"none", "ok"}}
    IN /\ \A w \in sending : Len(errs) < ErrsCap(units)
       /\ Len(errs) + Cardinality(sending) <= Cardinality(failed)
       /\ Cardinality(failed) <= U
       /\ \A w \in sending : werr[w] # "" /\ result[cur[w]] = werr[w]

C19_Witness ==
    /\ U = 2 /\ Len(errs) = 1 /\ Received = 0
    /\ \E w \in WorkerIds : wpc[w] = "send"

\* The records of input P whose name is in no record's essentials.
NotEssential(P) ==
    {P[i] : i \in {i \in DOMAIN P : \A j \in DOMAIN P : P[i].name \notin P[j].essential}}

\* C20: whatever permutation its shuffle takes, main.go's prune returns the
\* slices that are an essential of no slice of the input.
C20_Claim ==
    (Prune /\ epc = "installSlices") => Range(slices) = NotEssential(Parsed)

====
